---------------------------- MODULE Spec2Model ----------------------------
(***************************************************************************)
(* Model of src/uapdb/app.py: the feature pipeline that runs once at       *)
(* import time (lines 14-33), the Dash layout (lines 38-61) and the        *)
(* update_charts callback (lines 69-88).                                   *)
(*                                                                         *)
(* Conventions.                                                            *)
(*  - Text (a description, the text of a Year cell) is a sequence of       *)
(*    one-character strings, so that lower-casing, tokenising, slicing and *)
(*    number parsing are computed character by character.                  *)
(*  - A float is a fixed-point integer with one decimal digit: the value v *)
(*    is stored as 10*v (Year 1995 is 19950, latitude 39.5 is 395,         *)
(*    subjectivity 0.5 is 5).                                              *)
(*  - A row is a record; a cell that is NaN/None is a column that is       *)
(*    absent from the row's DOMAIN.  A Series cell is <<v>>, or << >> when  *)
(*    it is NaN.                                                           *)
(*  - A DataFrame / Series carries its index labels: [index, rows] and     *)
(*    [index, values], two sequences of equal length.                      *)
(***************************************************************************)
EXTENDS Integers, Sequences, FiniteSets, TLC

(***************************************************************************)
(* Bounds of the model                                                     *)
(***************************************************************************)
\* largest number of rows of updb.csv
MaxRows == 2

(***************************************************************************)
(* Characters                                                              *)
(***************************************************************************)
UpperToLower ==
  [A |-> "a", B |-> "b", C |-> "c", D |-> "d", E |-> "e", F |-> "f", G |-> "g",
   H |-> "h", I |-> "i", J |-> "j", K |-> "k", L |-> "l", M |-> "m", N |-> "n",
   O |-> "o", P |-> "p", Q |-> "q", R |-> "r", S |-> "s", T |-> "t", U |-> "u",
   V |-> "v", W |-> "w", X |-> "x", Y |-> "y", Z |-> "z"]

Digits == {"0", "1", "2", "3", "4", "5", "6", "7", "8", "9"}

DigitValue ==
  [c \in Digits |->
     CASE c = "0" -> 0 [] c = "1" -> 1 [] c = "2" -> 2 [] c = "3" -> 3
       [] c = "4" -> 4 [] c = "5" -> 5 [] c = "6" -> 6 [] c = "7" -> 7
       [] c = "8" -> 8 [] c = "9" -> 9]

\* the characters the regular expression class \w matches
WordChars ==
  DOMAIN UpperToLower \cup {UpperToLower[c] : c \in DOMAIN UpperToLower}
    \cup Digits \cup {"_"}

\* the characters str.split() splits on
Whitespace == {" ", "\t", "\n", "\r"}

\* str.lower() of one character
LowerChar(c) == IF c \in DOMAIN UpperToLower THEN UpperToLower[c] ELSE c

\* str.lower()
Lower(s) == [i \in 1..Len(s) |-> LowerChar(s[i])]

\* Python's `t in s` for two texts
IsSubstring(t, s) ==
  \E i \in 1..(Len(s) - Len(t) + 1) : SubSeq(s, i, i + Len(t) - 1) = t

(***************************************************************************)
(* Generic helpers on sets and sequences                                   *)
(***************************************************************************)
Min(S) == CHOOSE x \in S : \A y \in S : x <= y
Max(S) == CHOOSE x \in S : \A y \in S : x >= y

RECURSIVE SortedSeq(_)
\* the elements of a finite set of integers in increasing order
SortedSeq(S) ==
  IF S = {} THEN << >>
  ELSE <<Min(S)>> \o SortedSeq(S \ {Min(S)})

RECURSIVE SumSeq(_)
SumSeq(s) == IF s = << >> THEN 0 ELSE Head(s) + SumSeq(Tail(s))

RECURSIVE TruePositions(_, _)
\* the positions i..Len(mask) at which a boolean mask is TRUE, in order
TruePositions(mask, i) ==
  IF i > Len(mask) THEN << >>
  ELSE (IF mask[i] THEN <<i>> ELSE << >>) \o TruePositions(mask, i + 1)

\* the restriction of a row to the columns of cols it has
Project(row, cols) == [c \in (DOMAIN row) \cap cols |-> row[c]]

(***************************************************************************)
(* Sample contents of updb.csv                                             *)
(***************************************************************************)
\* "A silver saucer with a hovering disk shape"
DescReno ==
    <<"A", " ", "s", "i", "l", "v", "e", "r", " ", "s", "a", "u", "c", "e",
      "r", " ", "w", "i", "t", "h", " ", "a", " ", "h", "o", "v", "e", "r",
      "i", "n", "g", " ", "d", "i", "s", "k", " ", "s", "h", "a", "p", "e">>

\* "Bright orb seen over the city"
DescParis ==
    <<"B", "r", "i", "g", "h", "t", " ", "o", "r", "b", " ", "s", "e", "e",
      "n", " ", "o", "v", "e", "r", " ", "t", "h", "e", " ", "c", "i", "t",
      "y">>

\* "UFO did hover!"
DescMesa ==
    <<"U", "F", "O", " ", "d", "i", "d", " ", "h", "o", "v", "e", "r", "!">>

SampleDescriptions == {DescReno, DescParis, DescMesa}

RowReno ==
  [country |-> "USA", city |-> "Reno", latitude |-> 395, longitude |-> -1198,
   Year |-> <<"1", "9", "9", "5">>, description |-> DescReno]

RowParis ==
  [country |-> "France", city |-> "Paris", latitude |-> 488, longitude |-> 23,
   Year |-> <<"2", "0", "0", "1">>, description |-> DescParis]

\* a row whose Year cell is not a number
RowBadYear ==
  [country |-> "USA", city |-> "Mesa", latitude |-> 334, longitude |-> -1118,
   Year |-> <<"1", "9", "x", "x">>, description |-> DescMesa]

\* a row whose Year cell is a number with a fraction
RowHalfYear ==
  [country |-> "France", city |-> "Lyon", latitude |-> 457, longitude |-> 48,
   Year |-> <<"2", "0", "0", "1", ".", "5">>, description |-> DescMesa]

\* a row with an empty country cell
RowNoCountry ==
  [city |-> "Oslo", latitude |-> 599, longitude |-> 107,
   Year |-> <<"2", "0", "0", "1">>, description |-> DescParis]

SampleRows ==
  {RowReno, RowParis, RowBadYear, RowHalfYear, RowNoCountry}

\* the tables updb.csv may hold
CsvFiles == UNION {[1..n -> SampleRows] : n \in 0..MaxRows}

\* the (polarity, subjectivity) pairs TextBlob may give a description
SentimentValues == {<<0, 0>>, <<-5, 5>>, <<7, 8>>}

(***************************************************************************)
(* Keywords (line 28)                                                      *)
(***************************************************************************)
keywords ==
  <<"craft", "alien", "ufo", "object", "disk", "orb", "triangle", "hover",
    "saucer", "cigar", "sphere", "entity">>

\* the text of each keyword
KeywordText ==
  [craft |-> <<"c", "r", "a", "f", "t">>,
   alien |-> <<"a", "l", "i", "e", "n">>,
   ufo |-> <<"u", "f", "o">>,
   object |-> <<"o", "b", "j", "e", "c", "t">>,
   disk |-> <<"d", "i", "s", "k">>,
   orb |-> <<"o", "r", "b">>,
   triangle |-> <<"t", "r", "i", "a", "n", "g", "l", "e">>,
   hover |-> <<"h", "o", "v", "e", "r">>,
   saucer |-> <<"s", "a", "u", "c", "e", "r">>,
   cigar |-> <<"c", "i", "g", "a", "r">>,
   sphere |-> <<"s", "p", "h", "e", "r", "e">>,
   entity |-> <<"e", "n", "t", "i", "t", "y">>]

\* f'kw_{kw}'
KwColumn(kw) == "kw_" \o kw

KwColumns == {KwColumn(keywords[k]) : k \in 1..Len(keywords)}

\* the keyword a flag column stands for
KeywordOf(col) ==
  keywords[CHOOSE k \in 1..Len(keywords) : KwColumn(keywords[k]) = col]

(***************************************************************************)
(* pandas operations the script uses                                       *)
(***************************************************************************)
EmptyFrame == [index |-> << >>, rows |-> << >>]

\* RangeIndex(n): the labels 0 .. n-1
RangeIndex(n) == [i \in 1..n |-> i - 1]

\* pd.read_csv: one row per line of the file, labelled 0 .. n-1
ReadCsv(file) == [index |-> RangeIndex(Len(file)), rows |-> file]

\* frame[mask]: the rows at which the boolean mask is True, labels kept
BoolIndex(frame, mask) ==
  LET pos == TruePositions(mask, 1)
  IN  [index |-> [k \in 1..Len(pos) |-> frame.index[pos[k]]],
       rows  |-> [k \in 1..Len(pos) |-> frame.rows[pos[k]]]]

\* frame.dropna(subset=...)
Dropna(frame, subset) ==
  BoolIndex(frame,
            [i \in 1..Len(frame.rows) |-> subset \subseteq DOMAIN frame.rows[i]])

\* frame[col]
Column(frame, col) ==
  [index  |-> frame.index,
   values |-> [i \in 1..Len(frame.rows) |->
                 IF col \in DOMAIN frame.rows[i]
                 THEN <<frame.rows[i][col]>> ELSE << >>]]

\* series.dropna()
SeriesDropna(s) ==
  LET pos == TruePositions([i \in 1..Len(s.values) |-> s.values[i] # << >>], 1)
  IN  [index  |-> [k \in 1..Len(pos) |-> s.index[pos[k]]],
       values |-> [k \in 1..Len(pos) |-> s.values[pos[k]]]]

\* frame[col] = series: the series is aligned on the frame's index, a label
\* of the frame the series does not have gets NaN
SetColumn(frame, col, s) ==
  [index |-> frame.index,
   rows  |-> [i \in 1..Len(frame.rows) |->
     LET row  == frame.rows[i]
         hits == {j \in 1..Len(s.index) : s.index[j] = frame.index[i]}
         cell == IF hits = {} THEN << >> ELSE s.values[CHOOSE j \in hits : TRUE]
     IN  IF cell = << >>
         THEN [c \in (DOMAIN row) \ {col} |-> row[c]]
         ELSE [c \in (DOMAIN row) \cup {col} |->
                 IF c = col THEN cell[1] ELSE row[c]]]]

\* variant of ResetIndex: the labels of the frame are kept
ResetIndexKept(frame) == frame

\* frame.reset_index(drop=True)
ResetIndex(frame) ==
  [index |-> RangeIndex(Len(frame.rows)), rows |-> frame.rows]

\* the row of a frame at a label, the empty row when the frame lacks the label
RowAt(frame, label) ==
  LET hits == {j \in 1..Len(frame.index) : frame.index[j] = label}
  IN  IF hits = {} THEN << >> ELSE frame.rows[CHOOSE j \in hits : TRUE]

\* pd.concat([a, b], axis=1): outer join on the index labels
Concat(a, b) ==
  LET labels == IF a.index = b.index THEN a.index
                ELSE SortedSeq({a.index[i] : i \in 1..Len(a.index)}
                               \cup {b.index[i] : i \in 1..Len(b.index)})
  IN  [index |-> labels,
       rows  |-> [k \in 1..Len(labels) |->
                    RowAt(a, labels[k]) @@ RowAt(b, labels[k])]]

(***************************************************************************)
(* Number parsing and conversion                                           *)
(***************************************************************************)
IsDigits(s) == Len(s) > 0 /\ \A i \in 1..Len(s) : s[i] \in Digits

RECURSIVE DigitsToNat(_)
DigitsToNat(s) ==
  IF s = << >> THEN 0
  ELSE 10 * DigitsToNat(SubSeq(s, 1, Len(s) - 1)) + DigitValue[s[Len(s)]]

\* the number a text denotes, as a Series cell: digits, optionally followed
\* by a point and one digit; << >> for any other text
ParseNumber(s) ==
  IF IsDigits(s) THEN <<10 * DigitsToNat(s)>>
  ELSE IF /\ Len(s) >= 3
          /\ s[Len(s) - 1] = "."
          /\ s[Len(s)] \in Digits
          /\ IsDigits(SubSeq(s, 1, Len(s) - 2))
       THEN <<10 * DigitsToNat(SubSeq(s, 1, Len(s) - 2)) + DigitValue[s[Len(s)]]>>
       ELSE << >>

\* pd.to_numeric(series, errors='coerce')
ToNumeric(s) ==
  [index  |-> s.index,
   values |-> [i \in 1..Len(s.values) |->
                 IF s.values[i] = << >> THEN << >>
                 ELSE ParseNumber(s.values[i][1])]]

\* int(x): truncation towards zero
PyInt(x) == IF x >= 0 THEN (x \div 10) * 10 ELSE 0 - (((0 - x) \div 10) * 10)

Abs(x) == IF x >= 0 THEN x ELSE 0 - x

(***************************************************************************)
(* Feature pipeline (lines 14-33)                                          *)
(***************************************************************************)
RequiredColumns == {"latitude", "longitude", "country", "Year", "description"}

\* line 14: read the file and drop the rows with an empty required cell
LoadFrame(file) == Dropna(ReadCsv(file), RequiredColumns)

\* line 15: df['Year'] = pd.to_numeric(df['Year'], errors='coerce').dropna()
CoerceYear(frame) ==
  SetColumn(frame, "Year", SeriesDropna(ToNumeric(Column(frame, "Year"))))

\* str(x) of a cell holding text, or NaN
Str(cell) == IF cell = << >> THEN <<"n", "a", "n">> ELSE cell[1]

\* line 16: df['description'] = df['description'].astype(str)
StringifyDescription(frame) ==
  LET s == Column(frame, "description")
  IN  SetColumn(frame, "description",
                [index  |-> s.index,
                 values |-> [i \in 1..Len(s.values) |-> <<Str(s.values[i])>>]])

\* len(str(x).split()): the number of maximal runs of non-blank characters
WordCount(s) ==
  Cardinality({i \in 1..Len(s) :
                 /\ s[i] \notin Whitespace
                 /\ (i = 1 \/ s[i - 1] \in Whitespace)})

\* np.log(x), kept as a term: the logarithm is not evaluated
Log(x) == [fn |-> "log", arg |-> x]

\* a product with a float factor, kept as a term
Times(x, y) == [fn |-> "mul", left |-> x, right |-> y]

\* the number of characters short_description keeps (line 25)
ShortLen == 100

\* x[:100] + '...'
ShortDescription(s) ==
  SubSeq(s, 1, IF Len(s) < ShortLen THEN Len(s) ELSE ShortLen) \o <<".", ".", ".">>

\* variant of AnalysisCategory: the threshold itself counts as Scientific
AnalysisCategoryInclusive(subjectivity) ==
  IF subjectivity <= 5 THEN "Scientific" ELSE "Emotional"

\* line 24: np.where(subjectivity < 0.5, 'Scientific', 'Emotional')
AnalysisCategory(subjectivity) ==
  IF subjectivity < 5 THEN "Scientific" ELSE "Emotional"

\* lines 19-25 on one row; blob is TextBlob(description).sentiment
NlpRow(row, blob) ==
  LET mentions == WordCount(row.description)
      veracity == Times(Log(mentions + 1), Abs(blob[1]))
  IN  [sentiment         |-> blob[1],
       subjectivity      |-> blob[2],
       mentions          |-> mentions,
       impact            |-> Log(mentions + 1),
       veracity          |-> veracity,
       image_score       |-> Times(Abs(blob[1]) + blob[2], veracity),
       Analysis_Category |-> AnalysisCategory(blob[2]),
       short_description |-> ShortDescription(row.description)] @@ row

\* lines 19-25: the derived columns of every row; textblob maps a
\* description to its (polarity, subjectivity)
ComputeNlp(frame, textblob) ==
  [index |-> frame.index,
   rows  |-> [i \in 1..Len(frame.rows) |->
                NlpRow(frame.rows[i], textblob[frame.rows[i].description])]]

\* the position at which the run of word characters through position i ends
RunEnd(s, i) ==
  Min({j \in i..Len(s) : j = Len(s) \/ s[j + 1] \notin WordChars})

\* the matches of the token pattern (?u)\b\w\w+\b in a text: the maximal
\* runs of two or more word characters, as <<first, last>> positions
TokenSpans(s) ==
  {<<i, RunEnd(s, i)>> :
     i \in {j \in 1..Len(s) :
              /\ s[j] \in WordChars
              /\ (j = 1 \/ s[j - 1] \notin WordChars)
              /\ RunEnd(s, j) > j}}

\* the number of the given token spans of a text that are the term t
TokenCount(s, spans, t) ==
  Cardinality({sp \in spans : SubSeq(s, sp[1], sp[2]) = t})

\* line 29: CountVectorizer(vocabulary=keywords, binary=True) on one
\* document: lower-case, tokenise, count the vocabulary terms, clip to 0/1
Vectorize(doc) ==
  LET text  == Lower(doc)
      spans == TokenSpans(text)
  IN  [col \in KwColumns |->
         IF TokenCount(text, spans, KeywordText[KeywordOf(col)]) > 0
         THEN 1 ELSE 0]

\* line 30: the flags of df['description'].str.lower(), in a new frame with
\* a fresh RangeIndex
ExtractKeywords(frame) ==
  [index |-> RangeIndex(Len(frame.rows)),
   rows  |-> [i \in 1..Len(frame.rows) |->
                Vectorize(Lower(frame.rows[i].description))]]

\* line 33: pd.concat([df.reset_index(drop=True), keywords_df], axis=1)
Merge(frame, flags) == Concat(ResetIndex(frame), flags)

(***************************************************************************)
(* Layout (lines 38-61)                                                    *)
(***************************************************************************)
\* the non-NaN values of the Year column
YearValues(frame) ==
  {frame.rows[i].Year :
     i \in {j \in 1..Len(frame.rows) : "Year" \in DOMAIN frame.rows[j]}}

\* final_df['country'].unique()
Countries(frame) ==
  {frame.rows[i].country :
     i \in {j \in 1..Len(frame.rows) : "country" \in DOMAIN frame.rows[j]}}

\* range(lo, hi + 1, 10) in whole years
Marks(lo, hi) == {y \in lo..hi : (y - lo) % 100 = 0}

\* lines 42-45: the year-filter RangeSlider
RangeSlider(frame) ==
  LET lo == PyInt(Min(YearValues(frame)))
      hi == PyInt(Max(YearValues(frame)))
  IN  [min |-> lo, max |-> hi, marks |-> Marks(lo, hi), step |-> 10,
       value |-> <<lo, hi>>]

\* lines 38-61: the controls and the table of the page
Layout(frame) ==
  [dropdown |-> [options |-> Countries(frame), multi |-> TRUE],
   slider   |-> RangeSlider(frame),
   table    |-> [columns |-> UNION {DOMAIN frame.rows[i] : i \in 1..Len(frame.rows)},
                 data |-> frame.rows, page_size |-> 10]]

(***************************************************************************)
(* update_charts (lines 69-88)                                             *)
(***************************************************************************)
\* the value of the country dropdown: None, or a list of countries
None == [none |-> TRUE, values |-> {}]
List(S) == [none |-> FALSE, values |-> S]

\* `if countries:`
Truthy(countries) == ~countries.none /\ countries.values # {}

\* variant of Between: the upper end is exclusive
BetweenHalfOpen(v, lo, hi) == lo <= v /\ v < hi

\* Series.between(lo, hi), on one value: both ends inclusive
Between(v, lo, hi) == lo <= v /\ v <= hi

\* line 70: final_df[final_df['Year'].between(years[0], years[1])]
YearFilter(frame, years) ==
  BoolIndex(frame,
            [i \in 1..Len(frame.rows) |->
               /\ "Year" \in DOMAIN frame.rows[i]
               /\ Between(frame.rows[i].Year, years[1], years[2])])

\* line 72: dff[dff['country'].isin(countries)]
Isin(frame, countries) ==
  BoolIndex(frame,
            [i \in 1..Len(frame.rows) |->
               /\ "country" \in DOMAIN frame.rows[i]
               /\ frame.rows[i].country \in countries.values])

\* variant of CountryFilter: a selection that matches no row is ignored
CountryFilterFallback(frame, countries) ==
  IF Truthy(countries) /\ Isin(frame, countries).rows # << >>
  THEN Isin(frame, countries) ELSE frame

\* variant of CountryFilter: the selection is never applied
CountryFilterSkipped(frame, countries) == frame

\* lines 71-72
CountryFilter(frame, countries) ==
  IF Truthy(countries) THEN Isin(frame, countries) ELSE frame

\* lines 70-72: the subset the charts are built from
Subset(frame, countries, years) ==
  CountryFilter(YearFilter(frame, years), countries)

\* the rows of a frame restricted to some columns
Points(frame, cols) ==
  [i \in 1..Len(frame.rows) |-> Project(frame.rows[i], cols)]

\* series.mean() of a column: NaN when no row has a value, else sum / count
Mean(frame, col) ==
  LET s    == SeriesDropna(Column(frame, col))
      vals == [i \in 1..Len(s.values) |-> s.values[i][1]]
  IN  IF vals = << >> THEN << >>
      ELSE <<[sum |-> SumSeq(vals), count |-> Len(vals)]>>

\* dff.groupby('Year').size().reset_index(name='Observations')
GroupBySize(frame) ==
  LET ys == SortedSeq(YearValues(frame))
  IN  [k \in 1..Len(ys) |->
         [Year |-> ys[k],
          Observations |->
            Cardinality({i \in 1..Len(frame.rows) :
                           /\ "Year" \in DOMAIN frame.rows[i]
                           /\ frame.rows[i].Year = ys[k]})]]

\* lines 74-76
GeoFig(d) ==
  [figure |-> "scatter_geo", projection |-> "orthographic",
   data |-> Points(d, {"latitude", "longitude", "city", "short_description",
                       "Year", "Analysis_Category", "veracity"})]

\* lines 78-79
TrendFig(d) ==
  [figure |-> "line", title |-> "Yearly Trends", data |-> GroupBySize(d)]

\* lines 81-82
HyperFig(d) ==
  [figure |-> "scatter", title |-> "Scientific vs Emotional Analysis",
   data |-> Points(d, {"sentiment", "subjectivity", "veracity",
                       "Analysis_Category"})]

\* lines 84-86
BattleFig(d) ==
  [figure |-> "density_mapbox",
   center |-> [lat |-> Mean(d, "latitude"), lon |-> Mean(d, "longitude")],
   data |-> Points(d, {"latitude", "longitude", "image_score"})]

\* line 88: the four figures the callback returns
Figures(d) == <<GeoFig(d), TrendFig(d), HyperFig(d), BattleFig(d)>>

(***************************************************************************)
(* State                                                                   *)
(***************************************************************************)
VARIABLES
  csv,          \* the rows of updb.csv
  textblob,     \* TextBlob: description -> (polarity, subjectivity)
  pc,           \* the position of the script
  df,           \* the module-level frame df
  keywords_df,  \* the module-level frame keywords_df
  final_df,     \* the module-level frame final_df
  layout,       \* app.layout
  request,      \* the arguments of the last call of update_charts
  dff,          \* the subset the last call of update_charts built
  figures       \* what the last call of update_charts returned

vars == <<csv, textblob, pc, df, keywords_df, final_df, layout, request, dff,
          figures>>

NoLayout == [dropdown |-> [options |-> {}, multi |-> TRUE],
             slider   |-> [min |-> 0, max |-> 0, marks |-> {}, step |-> 10,
                           value |-> <<0, 0>>],
             table    |-> [columns |-> {}, data |-> << >>, page_size |-> 10]]

NoRequest == [called |-> FALSE, countries |-> None, years |-> <<0, 0>>]

\* the values the country dropdown sends
CountryInputs ==
  {None, List({}), List({"USA"}), List({"Mars"})}

\* the values the year slider sends: its initial value, or a dragged range
\* (a callback may also be sent a range whose ends are swapped)
YearInputs ==
  {layout.slider.value} \cup
  {<<19950, 19950>>, <<19950, 20010>>, <<20010, 19950>>}

Init ==
  /\ csv \in CsvFiles
  /\ textblob \in [SampleDescriptions -> SentimentValues]
  /\ pc = "start"
  /\ df = EmptyFrame
  /\ keywords_df = EmptyFrame
  /\ final_df = EmptyFrame
  /\ layout = NoLayout
  /\ request = NoRequest
  /\ dff = EmptyFrame
  /\ figures = << >>

(***************************************************************************)
(* Steps of the script                                                     *)
(***************************************************************************)
\* line 14
LoadCsv ==
  /\ pc = "start"
  /\ df' = LoadFrame(csv)
  /\ pc' = "loaded"
  /\ UNCHANGED <<csv, textblob, keywords_df, final_df, layout, request, dff,
                 figures>>

\* lines 15-16
Preprocess ==
  /\ pc = "loaded"
  /\ df' = StringifyDescription(CoerceYear(df))
  /\ pc' = "preprocessed"
  /\ UNCHANGED <<csv, textblob, keywords_df, final_df, layout, request, dff,
                 figures>>

\* lines 19-25
Nlp ==
  /\ pc = "preprocessed"
  /\ df' = ComputeNlp(df, textblob)
  /\ pc' = "scored"
  /\ UNCHANGED <<csv, textblob, keywords_df, final_df, layout, request, dff,
                 figures>>

\* lines 28-30
Keywords ==
  /\ pc = "scored"
  /\ keywords_df' = ExtractKeywords(df)
  /\ pc' = "vectorized"
  /\ UNCHANGED <<csv, textblob, df, final_df, layout, request, dff, figures>>

\* line 33
MergeFrames ==
  /\ pc = "vectorized"
  /\ final_df' = Merge(df, keywords_df)
  /\ pc' = "merged"
  /\ UNCHANGED <<csv, textblob, df, keywords_df, layout, request, dff, figures>>

\* lines 36-61: int(final_df['Year'].min()) raises when no row has a Year
\* (the minimum of an empty or all-NaN column is NaN), and the import fails
BuildLayout ==
  /\ pc = "merged"
  /\ IF YearValues(final_df) = {}
     THEN /\ pc' = "failed"
          /\ UNCHANGED layout
     ELSE /\ pc' = "serving"
          /\ layout' = Layout(final_df)
  /\ UNCHANGED <<csv, textblob, df, keywords_df, final_df, request, dff,
                 figures>>

\* variant of UpdateCharts: the subset is stored back into final_df
UpdateChartsInPlace(countries, years) ==
  /\ pc = "serving"
  /\ request' = [called |-> TRUE, countries |-> countries, years |-> years]
  /\ dff' = Subset(final_df, countries, years)
  /\ final_df' = dff'
  /\ figures' = Figures(dff')
  /\ UNCHANGED <<csv, textblob, pc, df, keywords_df, layout>>

\* lines 69-88: one call of the callback, with the values of the two controls
UpdateCharts(countries, years) ==
  /\ pc = "serving"
  /\ request' = [called |-> TRUE, countries |-> countries, years |-> years]
  /\ dff' = Subset(final_df, countries, years)
  /\ figures' = Figures(dff')
  /\ UNCHANGED <<csv, textblob, pc, df, keywords_df, final_df, layout>>

Next ==
  \/ LoadCsv
  \/ Preprocess
  \/ Nlp
  \/ Keywords
  \/ MergeFrames
  \/ BuildLayout
  \/ \E countries \in CountryInputs, years \in YearInputs :
       UpdateCharts(countries, years)

Spec == Init /\ [][Next]_vars

(***************************************************************************)
(* Properties                                                              *)
(***************************************************************************)
\* the enriched table has been built
Merged == pc \in {"merged", "serving", "failed"}

\* the positions of the rows of a frame
Rows(frame) == 1..Len(frame.rows)

\* the rows of updb.csv that have every required cell and a numeric Year
ValidCsvRows ==
  {i \in 1..Len(csv) :
     /\ RequiredColumns \subseteq DOMAIN csv[i]
     /\ ParseNumber(csv[i].Year) # << >>}

\* C1: for every record of the enriched table and every keyword T, the
\* flag kw_T is set if and only if T occurs, case-insensitively, as a
\* substring of the record's description.
C1_FlagIffSubstring ==
  Merged =>
    \A i \in Rows(final_df) : \A k \in 1..Len(keywords) :
      (final_df.rows[i][KwColumn(keywords[k])] = 1)
        <=> IsSubstring(KeywordText[keywords[k]],
                        Lower(final_df.rows[i].description))

\* C2: every record of the enriched table has a non-null latitude,
\* longitude, country, Year and description, and the enriched table holds
\* only the rows of the file that have every required cell and a Year that
\* parses as a number.
C2_RequiredCellsNonNull ==
  Merged =>
    /\ \A i \in Rows(final_df) : RequiredColumns \subseteq DOMAIN final_df.rows[i]
    /\ Len(final_df.rows) = Cardinality(ValidCsvRows)

\* the record at position i of the enriched table passes the filters of the
\* last request
Passes(i) ==
  /\ "Year" \in DOMAIN final_df.rows[i]
  /\ request.years[1] <= final_df.rows[i].Year
  /\ final_df.rows[i].Year <= request.years[2]
  /\ (~request.countries.none /\ request.countries.values # {})
       => final_df.rows[i].country \in request.countries.values

\* C3: the subset update_charts builds its charts from is exactly the
\* records of the enriched table with lo <= Year <= hi and, when the
\* selection is non-empty, country in the selection; an empty or unset
\* selection excludes no record on account of its country.
C3_SubsetIsExactlyTheMatchingRecords ==
  request.called =>
    /\ Len(dff.rows) = Cardinality({i \in Rows(final_df) : Passes(i)})
    /\ {<<dff.index[k], dff.rows[k]>> : k \in Rows(dff)}
         = {<<final_df.index[i], final_df.rows[i]>> :
              i \in {j \in Rows(final_df) : Passes(j)}}
    /\ \A k \in 1..(Len(dff.index) - 1) : dff.index[k] < dff.index[k + 1]

\* a call with a non-empty selection kept a record whose Year is the lower
\* end and one whose Year is the upper end, and left a record out
C3_Witness ==
  /\ request.called
  /\ Truthy(request.countries)
  /\ \E k \in Rows(dff) : dff.rows[k].Year = request.years[1]
  /\ \E k \in Rows(dff) : dff.rows[k].Year = request.years[2]
  /\ Len(dff.rows) < Len(final_df.rows)

\* C4: the year-range filter followed by the country filter gives the same
\* subset as the country filter followed by the year-range filter.
C4_FilterOrderIrrelevant ==
  request.called =>
    /\ CountryFilter(YearFilter(final_df, request.years), request.countries)
         = YearFilter(CountryFilter(final_df, request.countries), request.years)
    /\ dff = YearFilter(CountryFilter(final_df, request.countries), request.years)

\* a call in which each of the two filters removed a record the other kept
C4_Witness ==
  /\ request.called
  /\ Truthy(request.countries)
  /\ Len(dff.rows) < Len(YearFilter(final_df, request.years).rows)
  /\ Len(dff.rows) < Len(CountryFilter(final_df, request.countries).rows)

\* C5: no call of update_charts adds, removes or changes a record of the
\* enriched table (nor of the frames it was built from).
C5_TableNeverMutated ==
  [][pc = "serving" =>
       /\ final_df' = final_df
       /\ df' = df
       /\ keywords_df' = keywords_df]_vars

\* a call has produced a proper, non-empty subset of the enriched table,
\* and the enriched table is still the merge of the startup frames
C5_Witness ==
  /\ request.called
  /\ dff.rows # << >>
  /\ Len(dff.rows) < Len(final_df.rows)
  /\ final_df = Merge(df, keywords_df)

\* C6: with no country selected and the year range at the slider's initial
\* value, the subset the handler charts is the full enriched table.
C6_InitialChartsUseFullTable ==
  (request.called /\ request.countries = None
     /\ request.years = layout.slider.value)
    => dff = final_df

\* C7: for the file holding the Reno row and the Paris row, the year range
\* [1995, 1995] with no country selected yields exactly the Reno record,
\* with kw_saucer, kw_disk and kw_hover set and kw_orb not set.
C7_RenoScenario ==
  (csv = <<RowReno, RowParis>> /\ request.called
     /\ ~Truthy(request.countries) /\ request.years = <<19950, 19950>>)
    => /\ Len(dff.rows) = 1
       /\ dff.rows[1].city = "Reno"
       /\ dff.rows[1].kw_saucer = 1
       /\ dff.rows[1].kw_disk = 1
       /\ dff.rows[1].kw_hover = 1
       /\ dff.rows[1].kw_orb = 0

\* the last call selected only countries the enriched table does not have
UnknownCountriesOnly ==
  /\ request.called
  /\ Truthy(request.countries)
  /\ request.countries.values \cap Countries(final_df) = {}

\* C8: a call whose selection holds no country of the enriched table builds
\* the empty subset and still returns exactly four figures, each built from
\* that empty subset.
C8_UnknownCountriesGiveFourEmptyFigures ==
  UnknownCountriesOnly =>
    /\ dff.rows = << >>
    /\ Len(figures) = 4
    /\ \A k \in 1..4 : figures[k].data = << >>
    /\ <<figures[1].figure, figures[2].figure, figures[3].figure,
         figures[4].figure>>
         = <<"scatter_geo", "line", "scatter", "density_mapbox">>
    /\ figures[4].center = [lat |-> << >>, lon |-> << >>]

\* such a call, with a year range that by itself keeps some record
C8_Witness ==
  /\ UnknownCountriesOnly
  /\ YearFilter(final_df, request.years).rows # << >>

\* C9: every record of the enriched table is Scientific if and only if its
\* subjectivity is below 0.5, and Emotional otherwise.
C9_CategoryBySubjectivity ==
  Merged =>
    \A i \in Rows(final_df) :
      /\ "Analysis_Category" \in DOMAIN final_df.rows[i]
      /\ final_df.rows[i].Analysis_Category \in {"Scientific", "Emotional"}
      /\ (final_df.rows[i].Analysis_Category = "Scientific")
           <=> (final_df.rows[i].subjectivity < 5)

\* the enriched table has an Emotional record of subjectivity exactly 0.5
\* and a Scientific record
C9_Witness ==
  /\ Merged
  /\ \E i \in Rows(final_df) :
       /\ final_df.rows[i].subjectivity = 5
       /\ final_df.rows[i].Analysis_Category = "Emotional"
  /\ \E i \in Rows(final_df) : final_df.rows[i].Analysis_Category = "Scientific"

\* C10: the enriched table has exactly one row per row that survived the
\* load, in the same order, holding that row's cells and the twelve flags
\* computed from that row's description.
C10_MergeRowAligned ==
  Merged =>
    /\ Len(final_df.rows) = Len(LoadFrame(csv).rows)
    /\ Len(final_df.rows) = Len(df.rows)
    /\ \A i \in Rows(final_df) :
         /\ DOMAIN final_df.rows[i] = (DOMAIN df.rows[i]) \cup KwColumns
         /\ Project(final_df.rows[i], DOMAIN df.rows[i]) = df.rows[i]
         /\ Project(final_df.rows[i], KwColumns)
              = Vectorize(df.rows[i].description)

\* a row was dropped at load, so that the surviving rows are not labelled
\* 0 .. n-1, and a surviving row has a flag set
C10_Witness ==
  /\ Merged
  /\ df.index # RangeIndex(Len(df.rows))
  /\ \E i \in Rows(final_df) : \E c \in KwColumns : final_df.rows[i][c] = 1

=============================================================================
